---- MODULE Spec2Model ----
(***************************************************************************)
(* One run of app.py (vocals / instrumentals separator): the file          *)
(* lifecycle around the demucs subprocess.  Strings are sequences of       *)
(* one-character strings, so that startswith, endswith, "in", basename,    *)
(* splitext and urlparse are computed as Python computes them.  The        *)
(* filesystem is a map from file paths to contents plus a set of           *)
(* directories.                                                            *)
(***************************************************************************)
EXTENDS Integers, Sequences, FiniteSets

(***************************************************************************)
(* String literals of app.py                                               *)
(***************************************************************************)
\* "temp_separation"
temp_output ==
  <<"t","e","m","p","_","s","e","p","a","r","a","t","i","o","n">>
\* "htdemucs"
model_name ==
  <<"h","t","d","e","m","u","c","s">>
\* "only_vocals.mp3"
vocals_final ==
  <<"o","n","l","y","_","v","o","c","a","l","s",".","m","p","3">>
\* "only_instrumentals.mp3"
instrumentals_final ==
  <<"o","n","l","y","_","i","n","s","t","r","u","m","e","n","t","a","l","s",".","m","p","3">>
\* "downloaded_audio.mp3"
default_filename ==
  <<"d","o","w","n","l","o","a","d","e","d","_","a","u","d","i","o",".","m","p","3">>
\* "http://"
HTTP_PREFIX ==
  <<"h","t","t","p",":","/","/">>
\* "https://"
HTTPS_PREFIX ==
  <<"h","t","t","p","s",":","/","/">>
\* ".wav"
WAV_EXT ==
  <<".","w","a","v">>
\* ".mp3"
MP3_EXT ==
  <<".","m","p","3">>
\* "vocals"
VOCALS ==
  <<"v","o","c","a","l","s">>
\* "no_vocals"
NO_VOCALS ==
  <<"n","o","_","v","o","c","a","l","s">>
\* Python's None (no path is equal to it)
None ==
  <<"<None>">>

(***************************************************************************)
(* Command-line arguments and file names the runs are checked on           *)
(***************************************************************************)
\* "https://h/clip.mp3"
URL_clip ==
  <<"h","t","t","p","s",":","/","/","h","/","c","l","i","p",".","m","p","3">>
\* "http://h/only_vocals.mp3"
URL_only_vocals ==
  <<"h","t","t","p",":","/","/","h","/","o","n","l","y","_","v","o","c","a","l","s",".","m","p","3">>
\* "https://h/a/"  (the path has no file name)
URL_no_name ==
  <<"h","t","t","p","s",":","/","/","h","/","a","/">>
\* "http://h/audio?x=1.mp3"  (the path's file name has no dot)
URL_no_ext ==
  <<"h","t","t","p",":","/","/","h","/","a","u","d","i","o","?","x","=","1",".","m","p","3">>
\* "song.mp3"
PATH_song ==
  <<"s","o","n","g",".","m","p","3">>
\* "temp_separation/song.mp3"
PATH_in_temp ==
  <<"t","e","m","p","_","s","e","p","a","r","a","t","i","o","n","/","s","o","n","g",".","m","p","3">>
\* "temp_separation/htdemucs/song/no_vocals.mp3"  (left by an earlier failed run)
PATH_stale ==
  <<"t","e","m","p","_","s","e","p","a","r","a","t","i","o","n","/","h","t","d","e","m","u","c","s","/","s","o","n","g","/","n","o","_","v","o","c","a","l","s",".","m","p","3">>
\* "clip.mp3"
F_clip ==
  <<"c","l","i","p",".","m","p","3">>
\* "vocals.mp3"
F_vocals_mp3 ==
  <<"v","o","c","a","l","s",".","m","p","3">>
\* "no_vocals.mp3"
F_no_vocals_mp3 ==
  <<"n","o","_","v","o","c","a","l","s",".","m","p","3">>
\* "vocals.wav"
F_vocals_wav ==
  <<"v","o","c","a","l","s",".","w","a","v">>
\* "no_vocals.txt"
F_no_vocals_txt ==
  <<"n","o","_","v","o","c","a","l","s",".","t","x","t">>
\* "drums.mp3"
F_drums_mp3 ==
  <<"d","r","u","m","s",".","m","p","3">>
\* "vocals.txt"
F_vocals_txt ==
  <<"v","o","c","a","l","s",".","t","x","t">>

\* sys.argv[1]: URLs and local paths
Inputs ==
  {URL_clip, URL_only_vocals, URL_no_name, URL_no_ext,
   PATH_song, vocals_final, PATH_in_temp}

\* len(sys.argv)
ArgCounts ==
  {1, 2, 3}

\* files that may exist in the working directory before the run
PreExisting ==
  {PATH_song, vocals_final, F_clip, PATH_in_temp, PATH_stale}

\* names the external tool may write into its output directory
StemNames ==
  {F_vocals_mp3, F_no_vocals_mp3, F_vocals_wav, F_no_vocals_txt,
   F_drums_mp3, F_vocals_txt}

\* the most files one demucs call writes
MaxStems == 3

(***************************************************************************)
(* str and os.path                                                         *)
(***************************************************************************)
\* s.startswith(p)
StartsWith(s, p) ==
  /\ Len(s) >= Len(p)
  /\ SubSeq(s, 1, Len(p)) = p

\* s.endswith(p)
EndsWith(s, p) ==
  /\ Len(s) >= Len(p)
  /\ SubSeq(s, Len(s) - Len(p) + 1, Len(s)) = p

\* p in s
Contains(s, p) ==
  \E i \in 1..(Len(s) + 1) :
    /\ i + Len(p) - 1 <= Len(s)
    /\ SubSeq(s, i, i + Len(p) - 1) = p

\* s.find(c) + 1 over the characters of cs  (0: not found)
Find(s, cs) ==
  IF \E i \in 1..Len(s) : s[i] \in cs
    THEN CHOOSE i \in 1..Len(s) :
           /\ s[i] \in cs
           /\ \A j \in 1..(i - 1) : s[j] \notin cs
    ELSE 0

\* s.rfind(c) + 1  (0: not found)
RFind(s, c) ==
  IF \E i \in 1..Len(s) : s[i] = c
    THEN CHOOSE i \in 1..Len(s) :
           /\ s[i] = c
           /\ \A j \in (i + 1)..Len(s) : s[j] # c
    ELSE 0

\* os.path.basename(p)
basename(p) ==
  SubSeq(p, RFind(p, "/") + 1, Len(p))

\* os.path.splitext(p)[0]: the last dot after the last separator splits,
\* unless only dots precede it in the file name
splitext_root(p) ==
  LET sepIndex == RFind(p, "/")
      dotIndex == RFind(p, ".")
  IN  IF /\ dotIndex > sepIndex
         /\ \E k \in (sepIndex + 1)..(dotIndex - 1) : p[k] # "."
        THEN SubSeq(p, 1, dotIndex - 1)
        ELSE p

\* os.path.join(a, b)
join(a, b) ==
  IF StartsWith(b, <<"/">>) THEN b
  ELSE IF a = <<>> \/ EndsWith(a, <<"/">>) THEN a \o b
  ELSE a \o <<"/">> \o b

\* urlparse(url).path: what follows "scheme://netloc", up to "?" or "#",
\* with the ";params" of the last segment split off
urlparse_path(url) ==
  LET colon   == Find(url, {":"})
      rest    == SubSeq(url, colon + 3, Len(url))
      cut     == Find(rest, {"?", "#"})
      noQuery == IF cut = 0 THEN rest ELSE SubSeq(rest, 1, cut - 1)
      slash   == Find(noQuery, {"/"})
      path    == IF slash = 0 THEN <<>> ELSE SubSeq(noQuery, slash, Len(noQuery))
      last    == RFind(path, "/")
      tail    == SubSeq(path, last + 1, Len(path))
      semi    == Find(tail, {";"})
  IN  IF semi = 0 THEN path ELSE SubSeq(path, 1, last + semi - 1)

\* url_or_path.startswith(('http://', 'https://'))
is_url(url_or_path) ==
  \/ StartsWith(url_or_path, HTTP_PREFIX)
  \/ StartsWith(url_or_path, HTTPS_PREFIX)

\* the name download_audio writes the response body to
download_filename(url) ==
  LET filename == basename(urlparse_path(url))
  IN  IF filename = <<>> \/ ~Contains(filename, <<".">>)
        THEN default_filename
        ELSE filename

(***************************************************************************)
(* The run's state                                                         *)
(***************************************************************************)
VARIABLES
  pc,                    \* the statement of main() the run is at
  argc,                  \* len(sys.argv)
  audio_input,           \* sys.argv[1]
  audio_file,            \* what download_audio returned
  vocals_source,         \* the located vocals file, or None
  instrumentals_source,  \* the located instrumentals file, or None
  result,                \* what vocals_instrumentals_separation returned
  exit_status,           \* the process exit status, -1 while it runs
  files,                 \* the filesystem: file path -> content
  dirs,                  \* the filesystem: the directories
  files0,                \* files before the run
  dirs0,                 \* dirs before the run
  staged,                \* the file download_audio opened for writing, or None
  copied,                \* the destinations a completed shutil.copy2 wrote
  demucs_invoked,        \* subprocess.run was called
  stage_failed,          \* the stage that failed, "none" if none did
  listed                 \* the names os.listdir gave the locating loop

vars ==
  <<pc, argc, audio_input, audio_file, vocals_source, instrumentals_source,
    result, exit_status, files, dirs, files0, dirs0, staged, copied,
    demucs_invoked, stage_failed, listed>>

(***************************************************************************)
(* Filesystem                                                              *)
(***************************************************************************)
\* os.path.exists(p)
exists(p) ==
  p \in DOMAIN files \/ p \in dirs

\* p lies under directory d
under(p, d) ==
  /\ Len(p) > Len(d) + 1
  /\ StartsWith(p, d \o <<"/">>)

\* the parent directories of p
parents(p) ==
  {SubSeq(p, 1, i - 1) : i \in {k \in 1..Len(p) : p[k] = "/"}}

\* open(p, 'wb') followed by writes: p holds content c
write_file(f, p, c) ==
  [q \in DOMAIN f \cup {p} |-> IF q = p THEN c ELSE f[q]]

\* the files of f without those in gone
remove_files(f, gone) ==
  [q \in DOMAIN f \ gone |-> f[q]]

\* os.listdir(d): the names of the files directly in d
listdir(d) ==
  {SubSeq(p, Len(d) + 2, Len(p)) :
     p \in {q \in DOMAIN files : under(q, d) /\ RFind(q, "/") = Len(d) + 1}}

\* the result dict of a successful separation
both_files ==
  {<<"vocals", vocals_final>>, <<"instrumentals", instrumentals_final>>}

\* the output directory demucs is expected to write: temp_output/htdemucs/<base>
output_dir_of(path) ==
  join(join(temp_output, model_name), splitext_root(basename(path)))

(***************************************************************************)
(* Before main(): the command line and the working directory               *)
(***************************************************************************)
Init ==
  /\ pc = "main"
  /\ argc \in ArgCounts
  /\ audio_input \in IF argc = 2 THEN Inputs ELSE {None}
  /\ audio_file = None
  /\ vocals_source = None
  /\ instrumentals_source = None
  /\ result = {}
  /\ exit_status = -1
  /\ \E present \in SUBSET PreExisting :
       /\ files = [p \in present |-> "old"]
       /\ dirs = UNION {parents(p) : p \in present}
  /\ files0 = files
  /\ dirs0 = dirs
  /\ staged = None
  /\ copied = {}
  /\ demucs_invoked = FALSE
  /\ stage_failed = "none"
  /\ listed = {}

(***************************************************************************)
(* main(), lines 139-155: argument check and download_audio                *)
(***************************************************************************)
\* len(sys.argv) != 2: usage, sys.exit(1)
Usage ==
  /\ pc = "main"
  /\ argc # 2
  /\ pc' = "exited"
  /\ exit_status' = 1
  /\ UNCHANGED <<argc, audio_input, audio_file, vocals_source,
                 instrumentals_source, result, files, dirs, files0, dirs0,
                 staged, copied, demucs_invoked, stage_failed, listed>>

\* main() after download_audio returned r: exit 1 on None, else go on
after_download(r) ==
  /\ audio_file' = r
  /\ IF r = None
       THEN /\ pc' = "exited"
            /\ exit_status' = 1
            /\ stage_failed' = "download"
       ELSE /\ pc' = "makedirs"
            /\ UNCHANGED <<exit_status, stage_failed>>
  /\ UNCHANGED <<argc, audio_input, vocals_source, instrumentals_source,
                 result, dirs, files0, dirs0, copied, demucs_invoked, listed>>

\* download_audio, URL: requests.get or raise_for_status or open raises
\* before anything is written; returns None
DownloadRefused ==
  /\ pc = "main"
  /\ argc = 2
  /\ is_url(audio_input)
  /\ UNCHANGED <<files, staged>>
  /\ after_download(None)

\* download_audio, URL: the file is opened, then iter_content or write
\* raises; the truncated file stays, returns None
DownloadBroken ==
  /\ pc = "main"
  /\ argc = 2
  /\ is_url(audio_input)
  /\ files' = write_file(files, download_filename(audio_input), "partial")
  /\ staged' = download_filename(audio_input)
  /\ after_download(None)

\* download_audio, URL: the body is written, returns filename
DownloadOk ==
  /\ pc = "main"
  /\ argc = 2
  /\ is_url(audio_input)
  /\ files' = write_file(files, download_filename(audio_input), "body")
  /\ staged' = download_filename(audio_input)
  /\ after_download(download_filename(audio_input))

\* ResolveLocal without the os.path.exists test of line 37
ResolveLocal_unchecked ==
  /\ pc = "main"
  /\ argc = 2
  /\ ~is_url(audio_input)
  /\ UNCHANGED <<files, staged>>
  /\ after_download(audio_input)

\* download_audio, local path: the path if it exists, else None
ResolveLocal ==
  /\ pc = "main"
  /\ argc = 2
  /\ ~is_url(audio_input)
  /\ UNCHANGED <<files, staged>>
  /\ after_download(IF exists(audio_input) THEN audio_input ELSE None)

(***************************************************************************)
(* vocals_instrumentals_separation, lines 50-118                           *)
(***************************************************************************)
\* vocals_instrumentals_separation returns r: main goes on to print_results
return_result(r, failed) ==
  /\ result' = r
  /\ stage_failed' = failed
  /\ pc' = "print_results"

\* lines 51-53: create temp_separation unless it exists
MakeTempOutput ==
  /\ pc = "makedirs"
  /\ dirs' = dirs \cup {temp_output}
  /\ pc' = "demucs"
  /\ UNCHANGED <<argc, audio_input, audio_file, vocals_source,
                 instrumentals_source, result, exit_status, files, files0,
                 dirs0, staged, copied, demucs_invoked, stage_failed, listed>>

\* line 53 is outside the try of line 67: an OSError of os.makedirs is not
\* caught, the interpreter prints the traceback and exits with status 1
MakeTempOutputRaises ==
  /\ pc = "makedirs"
  /\ ~exists(temp_output)
  /\ pc' = "exited"
  /\ exit_status' = 1
  /\ stage_failed' = "makedirs"
  /\ UNCHANGED <<argc, audio_input, audio_file, vocals_source,
                 instrumentals_source, result, files, dirs, files0, dirs0,
                 staged, copied, demucs_invoked, listed>>

\* lines 68-72: subprocess.run raises or demucs exits nonzero: return {}
DemucsFails ==
  /\ pc = "demucs"
  /\ demucs_invoked' = TRUE
  /\ return_result({}, "demucs")
  /\ UNCHANGED <<argc, audio_input, audio_file, vocals_source,
                 instrumentals_source, exit_status, files, dirs, files0, dirs0,
                 staged, copied, listed>>

\* line 68, returncode 0: the tool has made its output root and model
\* directory, and may have made the track directory and written stems there
DemucsOk ==
  /\ pc = "demucs"
  /\ demucs_invoked' = TRUE
  /\ \E made \in BOOLEAN, stems \in SUBSET StemNames :
       /\ Cardinality(stems) <= MaxStems
       /\ made \/ stems = {}
       /\ dirs' = dirs \cup {temp_output, join(temp_output, model_name)}
                       \cup (IF made THEN {output_dir_of(audio_file)} ELSE {})
       /\ files' = [p \in DOMAIN files \cup
                            {join(output_dir_of(audio_file), n) : n \in stems} |->
                      IF \E n \in stems : p = join(output_dir_of(audio_file), n)
                        THEN "stem"
                        ELSE files[p]]
  /\ pc' = "locate"
  /\ UNCHANGED <<argc, audio_input, audio_file, vocals_source,
                 instrumentals_source, result, exit_status, files0, dirs0,
                 staged, copied, stage_failed, listed>>

\* role_of without the 'no_vocals' not in file test of line 90
role_of_no_exclusion(file) ==
  IF EndsWith(file, WAV_EXT) \/ EndsWith(file, MP3_EXT)
    THEN IF Contains(file, VOCALS)
           THEN "vocals"
         ELSE IF Contains(file, NO_VOCALS)
           THEN "instrumentals"
         ELSE "skip"
    ELSE "skip"

\* lines 89-93, the loop body: the role file is assigned to
role_of(file) ==
  IF EndsWith(file, WAV_EXT) \/ EndsWith(file, MP3_EXT)
    THEN IF Contains(file, VOCALS) /\ ~Contains(file, NO_VOCALS)
           THEN "vocals"
         ELSE IF Contains(file, NO_VOCALS)
           THEN "instrumentals"
         ELSE "skip"
    ELSE "skip"

\* lines 85-93: what the loop leaves in a source variable. os.listdir gives
\* the names in arbitrary order and a later match overwrites an earlier one,
\* so any file of the role may be the one that stays
located(names, role, dir) ==
  IF \E n \in names : role_of(n) = role
    THEN {join(dir, n) : n \in {m \in names : role_of(m) = role}}
    ELSE {None}

\* lines 77-82: the expected output directory does not exist: return {}
LocateNoDir ==
  /\ pc = "locate"
  /\ ~exists(output_dir_of(audio_file))
  /\ return_result({}, "nodir")
  /\ UNCHANGED <<argc, audio_input, audio_file, vocals_source,
                 instrumentals_source, exit_status, files, dirs, files0, dirs0,
                 staged, copied, demucs_invoked, listed>>

\* lines 84-97: the loop, then return {} unless both sources are set
Locate ==
  /\ pc = "locate"
  /\ exists(output_dir_of(audio_file))
  /\ listed' = listdir(output_dir_of(audio_file))
  /\ vocals_source' \in located(listed', "vocals", output_dir_of(audio_file))
  /\ instrumentals_source' \in
       located(listed', "instrumentals", output_dir_of(audio_file))
  /\ IF vocals_source' = None \/ instrumentals_source' = None
       THEN return_result({}, "roles")
       ELSE /\ pc' = "copy_vocals"
            /\ UNCHANGED <<result, stage_failed>>
  /\ UNCHANGED <<argc, audio_input, audio_file, exit_status, files, dirs,
                 files0, dirs0, staged, copied, demucs_invoked>>

\* what a shutil.copy2 that raises may leave at its destination: nothing
\* written, a truncated file, or the whole content (copystat raised)
CopyLeftovers ==
  {"untouched", "partial", "whole"}

\* shutil.copy2(src, dst) succeeds
copy2(src, dst) ==
  /\ src \in DOMAIN files
  /\ files' = write_file(files, dst, files[src])
  /\ copied' = copied \cup {dst}

\* shutil.copy2(src, dst) raises; the except of line 116 returns {}
copy2_raises(src, dst) ==
  /\ \E left \in CopyLeftovers :
       /\ left = "untouched" \/ src \in DOMAIN files
       /\ files' = CASE left = "untouched" -> files
                     [] left = "partial"   -> write_file(files, dst, "partial")
                     [] left = "whole"     -> write_file(files, dst, files[src])
  /\ UNCHANGED copied
  /\ return_result({}, "copy")

\* CopyVocals with the rmtree of line 107 moved before the second copy
CopyVocals_then_rmtree ==
  /\ pc = "copy_vocals"
  /\ vocals_source \in DOMAIN files
  /\ files' = remove_files(write_file(files, vocals_final, files[vocals_source]),
                           {p \in DOMAIN files : under(p, temp_output)})
  /\ copied' = copied \cup {vocals_final}
  /\ dirs' = {d \in dirs : d # temp_output /\ ~under(d, temp_output)}
  /\ pc' = "copy_instrumentals"
  /\ UNCHANGED <<argc, audio_input, audio_file, vocals_source,
                 instrumentals_source, result, exit_status, files0,
                 dirs0, staged, demucs_invoked, stage_failed, listed>>

\* line 103
CopyVocals ==
  /\ pc = "copy_vocals"
  /\ copy2(vocals_source, vocals_final)
  /\ pc' = "copy_instrumentals"
  /\ UNCHANGED <<argc, audio_input, audio_file, vocals_source,
                 instrumentals_source, result, exit_status, dirs, files0,
                 dirs0, staged, demucs_invoked, stage_failed, listed>>

\* line 103 raises
CopyVocalsRaises ==
  /\ pc = "copy_vocals"
  /\ copy2_raises(vocals_source, vocals_final)
  /\ UNCHANGED <<argc, audio_input, audio_file, vocals_source,
                 instrumentals_source, exit_status, dirs, files0, dirs0,
                 staged, demucs_invoked, listed>>

\* line 104
CopyInstrumentals ==
  /\ pc = "copy_instrumentals"
  /\ copy2(instrumentals_source, instrumentals_final)
  /\ pc' = "rmtree"
  /\ UNCHANGED <<argc, audio_input, audio_file, vocals_source,
                 instrumentals_source, result, exit_status, dirs, files0,
                 dirs0, staged, demucs_invoked, stage_failed, listed>>

\* line 104 raises
CopyInstrumentalsRaises ==
  /\ pc = "copy_instrumentals"
  /\ copy2_raises(instrumentals_source, instrumentals_final)
  /\ UNCHANGED <<argc, audio_input, audio_file, vocals_source,
                 instrumentals_source, exit_status, dirs, files0, dirs0,
                 staged, demucs_invoked, listed>>

\* lines 107-114: shutil.rmtree(temp_output) removes the subtree, then the
\* dict of the two final names is returned
RemoveTemp ==
  /\ pc = "rmtree"
  /\ temp_output \in dirs
  /\ files' = remove_files(files, {p \in DOMAIN files : under(p, temp_output)})
  /\ dirs' = {d \in dirs : d # temp_output /\ ~under(d, temp_output)}
  /\ return_result(both_files, "none")
  /\ UNCHANGED <<argc, audio_input, audio_file, vocals_source,
                 instrumentals_source, exit_status, files0, dirs0, staged,
                 copied, demucs_invoked, listed>>

\* line 107 raises after removing some of the files: temp_separation itself
\* is removed last, so it stays; the except of line 116 returns {}
RemoveTempRaises ==
  /\ pc = "rmtree"
  /\ \E gone \in SUBSET {p \in DOMAIN files : under(p, temp_output)} :
       files' = remove_files(files, gone)
  /\ return_result({}, "rmtree")
  /\ UNCHANGED <<argc, audio_input, audio_file, vocals_source,
                 instrumentals_source, exit_status, dirs, files0, dirs0,
                 staged, copied, demucs_invoked, listed>>

(***************************************************************************)
(* main(), lines 160-169: print_results and the clean up                   *)
(***************************************************************************)
\* print_results: os.path.getsize of each result file; a missing file raises
\* out of main and the process exits with status 1
PrintResults ==
  /\ pc = "print_results"
  /\ IF \A kv \in result : exists(kv[2])
       THEN /\ pc' = "cleanup"
            /\ UNCHANGED exit_status
       ELSE /\ pc' = "exited"
            /\ exit_status' = 1
  /\ UNCHANGED <<argc, audio_input, audio_file, vocals_source,
                 instrumentals_source, result, files, dirs, files0, dirs0,
                 staged, copied, demucs_invoked, stage_failed, listed>>

\* the process ends by returning from main()
exit_normally ==
  /\ pc' = "exited"
  /\ exit_status' = 0
  /\ UNCHANGED <<argc, audio_input, audio_file, vocals_source,
                 instrumentals_source, result, dirs, files0, dirs0, staged,
                 copied, demucs_invoked, stage_failed, listed>>

\* line 164 false: a local input, or the downloaded file is gone
CleanupSkipped ==
  /\ pc = "cleanup"
  /\ ~(is_url(audio_input) /\ exists(audio_file))
  /\ UNCHANGED files
  /\ exit_normally

\* lines 164-167: os.remove(audio_file)
Cleanup ==
  /\ pc = "cleanup"
  /\ is_url(audio_input) /\ exists(audio_file)
  /\ audio_file \in DOMAIN files
  /\ files' = remove_files(files, {audio_file})
  /\ exit_normally

\* lines 168-169: os.remove raises, a warning is logged
CleanupRaises ==
  /\ pc = "cleanup"
  /\ is_url(audio_input) /\ exists(audio_file)
  /\ UNCHANGED files
  /\ exit_normally

Next ==
  \/ Usage
  \/ DownloadRefused
  \/ DownloadBroken
  \/ DownloadOk
  \/ ResolveLocal
  \/ MakeTempOutput
  \/ MakeTempOutputRaises
  \/ DemucsFails
  \/ DemucsOk
  \/ LocateNoDir
  \/ Locate
  \/ CopyVocals
  \/ CopyVocalsRaises
  \/ CopyInstrumentals
  \/ CopyInstrumentalsRaises
  \/ RemoveTemp
  \/ RemoveTempRaises
  \/ PrintResults
  \/ CleanupSkipped
  \/ Cleanup
  \/ CleanupRaises

Spec ==
  Init /\ [][Next]_vars

(***************************************************************************)
(* Properties                                                              *)
(***************************************************************************)
\* main() has called vocals_instrumentals_separation and it has returned
separation_returned ==
  /\ pc \in {"print_results", "cleanup", "exited"}
  /\ argc = 2
  /\ stage_failed \notin {"download", "makedirs"}

\* C1: when vocals_instrumentals_separation returned a non-empty result,
\* at process exit the working directory holds only_vocals.mp3 and
\* only_instrumentals.mp3 and no temp_separation directory, for every input
\* reference (also one whose file name is only_vocals.mp3).
C1_success_leaves_both_files ==
  (pc = "exited" /\ result # {}) =>
    /\ vocals_final \in DOMAIN files
    /\ instrumentals_final \in DOMAIN files
    /\ temp_output \notin dirs

\* C2: when the input is a URL and the run has written a staging file,
\* the staging file is deleted before the process exits, on every path to
\* termination (a failed download included).
C2_staging_file_deleted_at_exit ==
  (pc = "exited" /\ argc = 2 /\ is_url(audio_input) /\ staged # None) =>
    staged \notin DOMAIN files

\* C3: when the fetch of a URL fails and download_audio returns None, the
\* call has created or overwritten no file of the working directory.
C3_failed_fetch_writes_nothing ==
  (argc = 2 /\ is_url(audio_input) /\ stage_failed = "download") =>
    files = files0

\* C4: when the input is a local path that does not exist, demucs is never
\* invoked, temp_separation is never created, no file is created or
\* changed, and the process exits with status 1.
C4_missing_local_input_aborts ==
  (argc = 2 /\ ~is_url(audio_input)
     /\ audio_input \notin DOMAIN files0 /\ audio_input \notin dirs0) =>
    /\ ~demucs_invoked
    /\ dirs = dirs0
    /\ files = files0
    /\ pc \in {"main", "exited"}
    /\ pc = "exited" => exit_status = 1

\* C4's case: a run on a missing local path has exited
C4_witness ==
  /\ pc = "exited"
  /\ argc = 2
  /\ ~is_url(audio_input)
  /\ audio_input \notin DOMAIN files0
  /\ exit_status = 1
  /\ temp_output \notin dirs

\* C5: the exit status is 1 exactly when the argument count is wrong or the
\* input reference cannot be resolved; every other run exits with 0.
C5_exit_status ==
  pc = "exited" =>
    /\ exit_status \in {0, 1}
    /\ exit_status = 1 <=> (argc # 2 \/ stage_failed = "download")

\* C6: a local input file is never deleted by the run, whatever the outcome
\* of the later stages.
C6_local_input_never_deleted ==
  (argc = 2 /\ ~is_url(audio_input) /\ audio_input \in DOMAIN files0) =>
    audio_input \in DOMAIN files

\* the claim's wording of the roles: only .wav and .mp3 names count
C8_audio(n) ==
  EndsWith(n, WAV_EXT) \/ EndsWith(n, MP3_EXT)

\* a vocals file: contains "vocals" but not "no_vocals"
C8_vocals_kind(n) ==
  C8_audio(n) /\ Contains(n, VOCALS) /\ ~Contains(n, NO_VOCALS)

\* an instrumentals file: contains "no_vocals"
C8_instrumentals_kind(n) ==
  C8_audio(n) /\ Contains(n, NO_VOCALS)

\* the locating loop of lines 88-93 has run
C8_loop_ran ==
  \/ pc \in {"copy_vocals", "copy_instrumentals", "rmtree"}
  \/ stage_failed \in {"roles", "copy", "rmtree"}
  \/ result # {}

\* C8: over every set of names in the output directory, the locating loop
\* gives the vocals role to an audio name containing "vocals" but not
\* "no_vocals" and the instrumentals role to an audio name containing
\* "no_vocals"; it succeeds, with both roles set, exactly when a file of
\* each kind is listed, and returns the empty result when a kind is missing.
C8_output_locator ==
  /\ (vocals_source # None) <=> (\E n \in listed : C8_vocals_kind(n))
  /\ (instrumentals_source # None) <=> (\E n \in listed : C8_instrumentals_kind(n))
  /\ vocals_source # None =>
       \E n \in listed :
         C8_vocals_kind(n) /\ vocals_source = join(output_dir_of(audio_file), n)
  /\ instrumentals_source # None =>
       \E n \in listed :
         /\ C8_instrumentals_kind(n)
         /\ instrumentals_source = join(output_dir_of(audio_file), n)
  /\ C8_loop_ran =>
       (stage_failed = "roles" <=>
          \/ ~\E n \in listed : C8_vocals_kind(n)
          \/ ~\E n \in listed : C8_instrumentals_kind(n))
  /\ stage_failed = "roles" => (separation_returned /\ result = {})

\* C8's case: the loop has set both roles from a listing that also holds a
\* non-audio file and a second vocals candidate
C8_witness ==
  /\ pc = "copy_vocals"
  /\ \E n \in listed : ~C8_audio(n)
  /\ Cardinality({n \in listed : C8_vocals_kind(n)}) = 2
  /\ \E n \in listed : C8_instrumentals_kind(n)

\* C9: whenever vocals_instrumentals_separation returns the empty result,
\* the run has written neither only_vocals.mp3 nor only_instrumentals.mp3
\* (no copy to a final name has completed).
C9_empty_result_wrote_nothing ==
  (separation_returned /\ result = {}) => copied = {}

\* the run is past the creation of temp_separation (lines 51-53)
C10_root_was_created ==
  \/ pc \in {"demucs", "locate", "copy_vocals", "copy_instrumentals",
             "rmtree", "print_results", "cleanup"}
  \/ pc = "exited" /\ argc = 2 /\ stage_failed \notin {"download", "makedirs"}

\* C10: temp_separation is removed only after both copies: whenever the run
\* has removed it, both final files have been written by this run; and after
\* a demucs failure, a missing output directory, a missing role or a copy
\* failure temp_separation is still there when the process exits.
C10_temp_removed_only_after_copies ==
  /\ (C10_root_was_created /\ temp_output \notin dirs) =>
       /\ {vocals_final, instrumentals_final} \subseteq copied
       /\ stage_failed = "none"
  /\ (pc = "exited" /\ stage_failed \in {"demucs", "nodir", "roles", "copy"}) =>
       temp_output \in dirs

\* C10's case: a run has removed temp_separation and exited
C10_witness ==
  /\ pc = "exited"
  /\ C10_root_was_created
  /\ temp_output \notin dirs
  /\ copied = {vocals_final, instrumentals_final}

====
